---- MODULE Spec2Model ----
(***************************************************************************)
(* hyprland_kb_switcher: the persisted Data record, the press classifier   *)
(* (compute_time_and_counter), the rotation engine (handle_press) and the  *)
(* commands init, update-layouts, switch, device add/remove and            *)
(* keypress-duration that drive them.                                      *)
(*                                                                         *)
(* Times are integers in microseconds (f64 seconds in the source).         *)
(* layouts is a TLA+ sequence, so the source's layouts[i] is layouts[i+1]. *)
(***************************************************************************)
EXTENDS Integers, Sequences, FiniteSets, TLC

VARIABLES
    data,       \* the persisted record (the file written by data::dump)
    mem,        \* the in-memory Data of the last switch, where it stopped
    op,         \* the last command run
    outcome,    \* how the last command ended
    target,     \* layout_id the last switch resolved (NoTarget: none)
    base,       \* history: layouts[cur_freq] before the last lone tap
    run,        \* history: presses in the current run of rapid gaps (capped)
    seen,       \* history: slots cur_all visited in the current sweep
    ended,      \* history: <<k, L>> when the last press was a lone tap ending
                \*   a burst of k presses that began with layout L active
    arg,        \* the arguments of the last command, as a sequence
    applied,    \* the devices the last switch called switch_xkb_layout for
    procs,      \* overlapping switch processes: where each is, what it holds
    start       \* history: the persisted record when the overlap began

vars == <<data, mem, op, outcome, target, base, run, seen, ended,
          arg, applied, procs, start>>

----------------------------------------------------------------------------
(* Bounds of the model *)

\* configured layout counts range over 1..MaxN
MaxN == 3
\* wall-clock readings range over 0, Tick, ..., MaxTick * Tick
MaxTick == 2
\* distance between two wall-clock readings, in microseconds
Tick == 300000

(* Program constants *)

\* Duration::DEFAULT_MAX_DURATION = 0.4 s
DEFAULT_MAX_DURATION == 400000
\* counter: u8
U8_MAX == 255

Times == {k * Tick : k \in 0..MaxTick}
LayoutCounts == 1..MaxN
\* keyboards the compositor reports (Devices::get_async)
Keyboards == {"kb0", "kb1"}
\* the device arguments given to init
InitArgs == {<<"kb0", "bogus">>}

NoTarget == 0 - 1
NoBase == 0 - 1
NoBurst == <<0, NoBase>>
\* the data file does not exist (before the first init)
NoData == [absent |-> TRUE]
\* the order in which the compositor lists its keyboards
KeyboardOrder == <<"kb0", "kb1">>

----------------------------------------------------------------------------
(* Duration *)

satisfies(max_duration, time) == time < max_duration

(* init: the record written by the init command *)

\* faulty variant: the identifiers are counted from 1
identity_from1(n) == [i \in 1..n |-> i]

\* (0..layouts.len()).collect()
identity(n) == [i \in 1..n |-> i - 1]

used_devices(devices) == SelectSeq(devices, LAMBDA d : d \in Keyboards)

InitData(devices, n, time) ==
    [devices      |-> used_devices(devices),
     last_time    |-> time,
     layouts      |-> identity(n),
     cur_freq     |-> 0,
     cur_all      |-> 0,
     sum_time     |-> 0,
     counter      |-> 0,
     max_duration |-> DEFAULT_MAX_DURATION]

----------------------------------------------------------------------------
(* Press classifier.  ovf is what the build does on u8 overflow of        *)
(* counter += 1: "panic" (overflow checks on) or "wrap" (checks off).     *)
(* The result is the record where execution stopped and whether it        *)
(* panicked.                                                              *)

compute_time_and_counter(press_time, d, ovf) ==
    LET diff == press_time - d.last_time
        sum  == d.sum_time + diff
        d1   == [d EXCEPT !.last_time = press_time, !.sum_time = sum]
    IN  IF satisfies(d.max_duration, sum)
        THEN IF d.counter = U8_MAX /\ ovf = "panic"
             THEN [d |-> d1, panic |-> TRUE]
             ELSE LET c == (d.counter + 1) % (U8_MAX + 1)
                  IN [d |-> [d1 EXCEPT !.counter = c,
                                       !.sum_time = IF c >= 2 THEN 0 ELSE sum],
                      panic |-> FALSE]
        ELSE [d |-> [d1 EXCEPT !.sum_time = 0, !.counter = 1], panic |-> FALSE]

(* Rotation engine.  Indexing layouts out of range panics. *)

InRange(d, i) == i < Len(d.layouts)

\* faulty variant: the second assignment reads the slot already overwritten
swap_lossy(layouts, i, j) == [layouts EXCEPT ![i + 1] = layouts[j + 1]]

swap(layouts, i, j) ==
    [layouts EXCEPT ![i + 1] = layouts[j + 1], ![j + 1] = layouts[i + 1]]

\* faulty variant: the toggle counts over three slots
toggle_mod3(cur_freq) == (cur_freq + 1) % 3

\* faulty variant: the toggle is left out
toggle_none(cur_freq) == cur_freq

\* line 344: the lone-tap toggle of cur_freq
toggle(cur_freq) == (cur_freq + 1) % 2

\* faulty variant: a confirmed run starts its cursor at slot 1
advance_from1(counter, cur_all) == IF counter > 2 THEN cur_all + 1 ELSE 1

\* lines 346-350: where the cursor goes before the modulo
advance(counter, cur_all) == IF counter > 2 THEN cur_all + 1 ELSE 2

\* faulty variant: the cursor is not moved off the cur_freq slot
skip_none(cur_all, cur_freq) == cur_all

\* lines 353-355: step over the cur_freq slot, without a second modulo
skip(cur_all, cur_freq) == IF cur_all = cur_freq THEN cur_all + 1 ELSE cur_all

handle_press(d) ==
    IF d.counter <= 1
    THEN [d |-> [d EXCEPT !.cur_freq = toggle(d.cur_freq)], panic |-> FALSE]
    ELSE LET a1 == advance(d.counter, d.cur_all)
             a2 == a1 % Len(d.layouts)
             a3 == skip(a2, d.cur_freq)
             d1 == [d EXCEPT !.cur_all = a3]
         IN  IF InRange(d1, d1.cur_freq) /\ InRange(d1, d1.cur_all)
             THEN [d |-> [d1 EXCEPT !.layouts =
                                       swap(d.layouts, d1.cur_all, d1.cur_freq)],
                   panic |-> FALSE]
             ELSE [d |-> d1, panic |-> TRUE]

\* the layout a record makes active: layouts[cur_freq]
Active(d) == IF InRange(d, d.cur_freq) THEN d.layouts[d.cur_freq + 1] ELSE NoTarget

----------------------------------------------------------------------------
(* History kept beside the program state.  A press is fresh when its gap   *)
(* reaches max_duration and rapid when its gap is below it.                *)

Gap(press_time) == press_time - data.last_time

\* 0: no fresh press yet, 1: the last press was fresh, 2: rapid presses followed
NextRun(press_time) ==
    IF ~satisfies(data.max_duration, Gap(press_time)) THEN 1
    ELSE IF run >= 1 THEN 2 ELSE 0

NextSeen(r, d) ==
    IF r < 2 THEN {}
    ELSE IF d.cur_all \in seen THEN {d.cur_all} ELSE seen \cup {d.cur_all}

----------------------------------------------------------------------------
(* Commands.  Each is one run of the program: load, change, dump.          *)

\* faulty variant: the record is dumped before the fallible await
dump_first(ok, old, new) == new

\* the file after a command whose awaits of the compositor succeeded (ok) or
\* failed: every `?` on them returns before data::dump is reached
dump_after(ok, old, new) == IF ok THEN new ELSE old

\* the keyboards switch dispatches to: those listed by the compositor whose
\* name is among the stored devices (lines 220-224)
matched(devices) ==
    SelectSeq(KeyboardOrder, LAMBDA k : \E i \in 1..Len(devices) : devices[i] = k)

\* lines 232-234: the futures are awaited one after the other and `?` returns
\* at the first that fails; failAt is its position (0: none fails)
awaited(calls, failAt) ==
    IF failAt = 0 THEN calls ELSE SubSeq(calls, 1, failAt)

NoOverlap == UNCHANGED <<procs, start>>

\* init <devices...>: extOk is whether the compositor answered both queries
init(devices, n, time, extOk) ==
    /\ op' = "init"
    /\ arg' = devices
    /\ target' = NoTarget
    /\ applied' = <<>>
    /\ base' = NoBase /\ run' = 0 /\ seen' = {} /\ ended' = NoBurst
    /\ data' = dump_after(extOk, data, InitData(devices, n, time))
    /\ mem' = data'
    /\ outcome' = IF extOk THEN "ok" ELSE "ext_error"
    /\ NoOverlap

\* update-layouts: n is the number of layouts now configured
update_layouts(n, extOk) ==
    /\ op' = "update_layouts"
    /\ arg' = <<>>
    /\ target' = NoTarget
    /\ applied' = <<>>
    /\ base' = NoBase /\ run' = 0 /\ seen' = {} /\ ended' = NoBurst
    /\ data' = dump_after(extOk, data, [data EXCEPT !.layouts = identity(n)])
    /\ mem' = data'
    /\ outcome' = IF extOk THEN "ok" ELSE "ext_error"
    /\ NoOverlap

\* switch: one press at wall-clock press_time; devOk is whether the
\* compositor listed its devices, failAt which apply fails (0: none)
switch(press_time, ovf, devOk, failAt) ==
    LET c == compute_time_and_counter(press_time, data, ovf)
        h == IF c.panic THEN c ELSE handle_press(c.d)
        panicked == h.panic \/ ~InRange(h.d, h.d.cur_freq)
        calls == matched(h.d.devices)
    IN  /\ op' = "switch"
        /\ arg' = <<>>
        /\ mem' = h.d
        /\ NoOverlap
        /\ IF panicked
           THEN /\ outcome' = IF c.panic THEN "overflow_panic" ELSE "index_panic"
                /\ target' = NoTarget
                /\ applied' = <<>>
                /\ UNCHANGED data
                /\ base' = NoBase /\ run' = 0 /\ seen' = {} /\ ended' = NoBurst
           ELSE IF ~devOk
           THEN /\ outcome' = "ext_error"
                /\ target' = NoTarget
                /\ applied' = <<>>
                /\ data' = dump_after(devOk, data, h.d)
                /\ base' = NoBase /\ run' = 0 /\ seen' = {} /\ ended' = NoBurst
           ELSE /\ failAt <= Len(calls)
                /\ outcome' = IF failAt = 0 THEN "ok" ELSE "apply_error"
                /\ target' = Active(h.d)
                /\ applied' = awaited(calls, failAt)
                /\ data' = dump_after(devOk, data, h.d)
                /\ base' = IF h.d.counter <= 1 THEN Active(data) ELSE base
                /\ run' = NextRun(press_time)
                /\ seen' = NextSeen(run', h.d)
                /\ ended' = IF h.d.counter <= 1 /\ data.counter >= 2
                             THEN <<data.counter, base>> ELSE NoBurst

----------------------------------------------------------------------------
Init ==
    /\ \E devices \in InitArgs, n \in LayoutCounts, time \in Times :
          data = InitData(devices, n, time)
    /\ mem = data
    /\ op = "init"
    /\ outcome = "ok"
    /\ target = NoTarget
    /\ base = NoBase /\ run = 0 /\ seen = {} /\ ended = NoBurst
    /\ arg = <<>> /\ applied = <<>>
    /\ procs = <<>> /\ start = NoData

\* what an overflowing counter += 1 can do; it only matters at U8_MAX
Builds(d) == IF d.counter = U8_MAX THEN {"panic", "wrap"} ELSE {"wrap"}

InitCmd ==
    \E devices \in InitArgs, n \in LayoutCounts, time \in Times :
        init(devices, n, time, TRUE)

UpdateLayouts ==
    \E n \in LayoutCounts : update_layouts(n, TRUE)

Switch ==
    \E press_time \in Times, ovf \in Builds(data) :
        switch(press_time, ovf, TRUE, 0)

Next == InitCmd \/ UpdateLayouts \/ Switch

Spec == Init /\ [][Next]_vars

----------------------------------------------------------------------------
TypeOK ==
    /\ data.counter \in 0..U8_MAX
    /\ data.cur_freq \in 0..1
    /\ outcome \in {"ok", "overflow_panic", "index_panic", "ext_error", "apply_error"}

----------------------------------------------------------------------------
(* Properties *)

IsPermutation(layouts) ==
    {layouts[i] : i \in 1..Len(layouts)} = 0..(Len(layouts) - 1)

\* the rotation engine ran in the last command
Stepped == op = "switch" /\ outcome # "overflow_panic"

N == Len(data.layouts)

\* C1: layouts, persisted or in memory, is a permutation of 0..layouts.len()
\* in every state reached by init, switch and update-layouts.
C1_LayoutsPermutation == IsPermutation(data.layouts) /\ IsPermutation(mem.layouts)

\* a burst press has swapped two slots
C1_Witness ==
    /\ op = "switch" /\ outcome = "ok"
    /\ data.counter >= 3
    /\ data.layouts # identity(N)

\* C2 as stated: after every rotation engine step, lone tap or burst,
\* cur_freq # cur_all.
C2_Orig == Stepped => mem.cur_freq # mem.cur_all

\* C2 amended: after every rotation engine step of a press classified with
\* counter >= 2, cur_freq # cur_all.
C2_BurstCursorOffFreq ==
    (Stepped /\ mem.counter >= 2) => mem.cur_freq # mem.cur_all

\* the cursor landed on cur_freq = 0 after the modulo and was stepped to 1
C2_Witness ==
    /\ op = "switch" /\ outcome = "ok"
    /\ data.counter >= 3
    /\ data.cur_freq = 0 /\ data.cur_all = 1

\* C3 as stated: cur_freq and cur_all index layouts in every reachable state
\* and no switch indexes layouts out of range.
C3_Orig ==
    /\ InRange(data, data.cur_freq)
    /\ InRange(data, data.cur_all)
    /\ outcome # "index_panic"

----------------------------------------------------------------------------
(* The three-layout burst: three presses 0.05 s apart on layouts [0,1,2],  *)
(* cur_freq = 0, cur_all = 1, max_duration = 0.4.  The start states are    *)
(* the records of that shape the program can hold when the first press     *)
(* finds its gap at or over max_duration: any run length 1..255 is left    *)
(* with cur_freq = 0, cur_all = 1 by a run on two layouts, after which     *)
(* update-layouts has read three layouts and put them in order.            *)

BurstTimes == <<0, 50000, 100000>>

BurstStart ==
    {[devices      |-> <<"kb0">>,
      last_time    |-> 0 - (k + 1) * Tick,
      layouts      |-> <<0, 1, 2>>,
      cur_freq     |-> 0,
      cur_all      |-> 1,
      sum_time     |-> 0,
      counter      |-> c,
      max_duration |-> DEFAULT_MAX_DURATION] :
        k \in 1..MaxTick, c \in 1..U8_MAX}

InitBurst ==
    /\ data \in BurstStart
    /\ mem = data
    /\ op = "update_layouts"
    /\ outcome = "ok"
    /\ target = NoTarget
    /\ base = NoBase /\ run = 0 /\ seen = {} /\ ended = NoBurst
    /\ arg = <<>> /\ applied = <<>>
    /\ procs = <<>> /\ start = NoData

\* the presses of the scenario done so far
Pressed ==
    IF data.last_time < BurstTimes[1] THEN 0
    ELSE CHOOSE k \in 1..3 : BurstTimes[k] = data.last_time

BurstPress ==
    /\ Pressed < 3
    /\ \E ovf \in Builds(data) : switch(BurstTimes[Pressed + 1], ovf, TRUE, 0)

SpecBurst == InitBurst /\ [][BurstPress]_vars

\* C4 as stated: the second press gives counter 2, layouts [2,1,0], target 2;
\* the third gives counter 3, layouts [1,2,0], target 1.
C4_Orig ==
    /\ Pressed = 1 => data.counter = 1
    /\ Pressed = 2 =>
          data.counter = 2 /\ data.layouts = <<2, 1, 0>> /\ target = 2
    /\ Pressed = 3 =>
          data.counter = 3 /\ data.layouts = <<1, 2, 0>> /\ target = 1

\* C4 amended: the first press, a lone tap, moves cur_freq to 1; the second
\* gives counter 2, layouts [0,2,1], target 2; the third gives counter 3,
\* layouts [2,0,1], target 0.
C4_BurstTrace ==
    /\ Pressed = 1 =>
          /\ data.counter = 1 /\ data.cur_freq = 1
          /\ data.layouts = <<0, 1, 2>> /\ target = 1
    /\ Pressed = 2 =>
          /\ data.counter = 2 /\ data.cur_all = 2
          /\ data.layouts = <<0, 2, 1>> /\ target = 2
    /\ Pressed = 3 =>
          /\ data.counter = 3 /\ data.cur_all = 0
          /\ data.layouts = <<2, 0, 1>> /\ target = 0

\* the third press of the scenario has been handled
C4_Witness == Pressed = 3 /\ op = "switch" /\ outcome = "ok"

----------------------------------------------------------------------------
C6_LoneTapToggles ==
    [][(op' = "switch" /\ outcome' # "overflow_panic" /\ mem'.counter <= 1) =>
         LET again == handle_press(mem').d
         IN  /\ mem'.layouts = data.layouts
             /\ mem'.cur_all = data.cur_all
             /\ data.cur_freq \in {0, 1}
             /\ mem'.cur_freq = 1 - data.cur_freq
             /\ again.cur_freq = data.cur_freq
             /\ again.layouts = data.layouts
             /\ again.cur_all = data.cur_all
             /\ Active(again) = Active(data)]_vars

\* a lone tap has been handled after bursts reordered layouts
C6_Witness ==
    /\ op = "switch" /\ outcome = "ok"
    /\ data.counter <= 1
    /\ data.layouts # identity(N)
    /\ data.cur_all >= 1

\* C7 as stated: a press finding counter >= 2 stored either has a gap below
\* max_duration, and then counter is one more and sum_time is 0, or has a
\* gap of max_duration or more, and then counter = 1, sum_time = 0 and the
\* rotation step only toggles cur_freq.
C7_Orig ==
    [][(op' = "switch" /\ data.counter >= 2) =>
         LET gap == mem'.last_time - data.last_time
         IN  IF gap < data.max_duration
             THEN mem'.counter = data.counter + 1 /\ mem'.sum_time = 0
             ELSE /\ mem'.counter = 1 /\ mem'.sum_time = 0
                  /\ mem'.layouts = data.layouts
                  /\ mem'.cur_all = data.cur_all
                  /\ mem'.cur_freq = 1 - data.cur_freq]_vars

\* C8 as stated: with three or more layouts, every press with gap 0 succeeds
\* and leaves counter exactly one more than it found.
C8_Orig ==
    [][(op' = "switch" /\ Len(data.layouts) >= 3
          /\ mem'.last_time = data.last_time) =>
         /\ outcome' = "ok"
         /\ data'.counter = data.counter + 1]_vars

\* C9 as stated: with three or more layouts, in a run of presses whose gaps
\* are all below max_duration, cur_all never rests on the cur_freq slot and
\* visits every other slot before it visits one again.
C9_Orig ==
    [][(op' = "switch" /\ outcome' = "ok" /\ run' = 2
          /\ Len(data'.layouts) >= 3) =>
         /\ data'.cur_all # data'.cur_freq
         /\ \/ data'.cur_all \notin seen
            \/ seen = (0..(Len(data'.layouts) - 1)) \ {data'.cur_freq}]_vars

\* C10 as stated: the stored sum_time is never negative, whatever the order
\* of the press timestamps.
C10_Orig == data.sum_time >= 0

----------------------------------------------------------------------------
(* Two overlapping switch processes.  Each reads the clock (lines 210-213), *)
(* loads the file (214), and then classifies, rotates and dumps (215-230);  *)
(* nothing locks the file between the load and the dump.                    *)

\* presses handled one at a time before the overlap begins
MaxWarm == 2

\* a whole switch on the loaded record d, the compositor answering
run_switch(d, press_time, ovf) ==
    LET c == compute_time_and_counter(press_time, d, ovf)
        h == IF c.panic THEN c ELSE handle_press(c.d)
    IN  [d |-> h.d, ok |-> ~(h.panic \/ ~InRange(h.d, h.d.cur_freq))]

RECURSIVE Warm(_)
\* the records the file can hold after init and up to k presses
Warm(k) ==
    IF k = 0
    THEN {InitData(devices, n, time) :
            devices \in InitArgs, n \in LayoutCounts, time \in Times}
    ELSE LET W == Warm(k - 1)
         IN  W \cup {run_switch(d, t, "wrap").d :
                       d \in {x \in W : \A t \in Times : run_switch(x, t, "wrap").ok},
                       t \in Times}

Procs == {1, 2}

InitRace ==
    /\ data \in Warm(MaxWarm)
    /\ start = data
    /\ procs = [p \in Procs |-> [pc |-> "idle", t |-> 0, loc |-> NoData, saw |-> 0]]
    /\ mem = data
    /\ op = "init"
    /\ outcome = "ok"
    /\ target = NoTarget
    /\ base = NoBase /\ run = 0 /\ seen = {} /\ ended = NoBurst
    /\ arg = <<>> /\ applied = <<>>

Dumped == Cardinality({p \in Procs : procs[p].pc = "done"})

RaceFrame == UNCHANGED <<base, run, seen, ended, arg, start>>

\* lines 210-213: press_time is read before the file is opened
ReadClock(p) ==
    /\ procs[p].pc = "idle"
    /\ \E t \in Times : procs' = [procs EXCEPT ![p].pc = "timed", ![p].t = t]
    /\ UNCHANGED <<data, mem, op, outcome, target, applied>>
    /\ RaceFrame

\* line 214: data::load
Load(p) ==
    /\ procs[p].pc = "timed"
    /\ procs' = [procs EXCEPT ![p].pc = "loaded", ![p].loc = data,
                              ![p].saw = Dumped]
    /\ UNCHANGED <<data, mem, op, outcome, target, applied>>
    /\ RaceFrame

\* lines 215-235: classify, rotate, dump, apply
Finish(p) ==
    /\ procs[p].pc = "loaded"
    /\ \E ovf \in Builds(procs[p].loc) :
          LET r == run_switch(procs[p].loc, procs[p].t, ovf)
          IN  /\ procs' = [procs EXCEPT ![p].pc = IF r.ok THEN "done" ELSE "panicked"]
              /\ data' = IF r.ok THEN r.d ELSE data
              /\ mem' = r.d
              /\ op' = "switch"
              /\ outcome' = IF r.ok THEN "ok" ELSE "index_panic"
              /\ target' = IF r.ok THEN Active(r.d) ELSE NoTarget
              /\ applied' = IF r.ok THEN matched(r.d.devices) ELSE <<>>
    /\ RaceFrame

NextRace == \E p \in Procs : ReadClock(p) \/ Load(p) \/ Finish(p)

SpecRace == InitRace /\ [][NextRace]_vars

\* the file after the presses of p and then q are handled one after the other
Serial(p, q) ==
    run_switch(run_switch(start, procs[p].t, "panic").d, procs[q].t, "panic").d

SerialCompletes(p, q) ==
    /\ run_switch(start, procs[p].t, "panic").ok
    /\ run_switch(run_switch(start, procs[p].t, "panic").d, procs[q].t, "panic").ok

BothDumped == \A p \in Procs : procs[p].pc = "done"

\* C11: when both processes load before either dumps, the file ends as the
\* last dumper wrote it from the record both loaded, which is the result of
\* neither order of handling the two presses one after the other: one
\* press is lost.  When one loads after the other has dumped, the file ends
\* as that serial order leaves it.
C11_LostUpdate ==
    (BothDumped /\ SerialCompletes(1, 2) /\ SerialCompletes(2, 1)) =>
        /\ (procs[1].saw = 0 /\ procs[2].saw = 0) =>
              /\ data # Serial(1, 2) /\ data # Serial(2, 1)
              /\ \E p \in Procs : data = run_switch(start, procs[p].t, "panic").d
        /\ procs[2].saw = 1 => data = Serial(1, 2)
        /\ procs[1].saw = 1 => data = Serial(2, 1)

\* both loaded before either dumped, both dumped, and a press is lost
C11_Witness ==
    /\ BothDumped
    /\ procs[1].saw = 0 /\ procs[2].saw = 0
    /\ Len(data.layouts) >= 3
    /\ SerialCompletes(1, 2)
    /\ data # Serial(1, 2) /\ data # Serial(2, 1)

----------------------------------------------------------------------------
(* All commands, the data file absent until the first init.               *)

\* Duration::MIN = 0.2 s, Duration::MAX = 1.0 s
MIN == 200000
MAX == 1000000

\* the stored device list holds at most MaxDevices names
MaxDevices == 2
\* a run of rapid presses is followed up to counter = MaxRunLen
MaxRunLen == 3

DeviceNames == Keyboards \cup {"bogus"}
DeviceArgs == {<<>>, <<"kb0">>, <<"kb0", "kb0">>, <<"kb1", "bogus">>, <<"kb0", "kb1">>}
DurationArgs == {MIN - 1, MIN, DEFAULT_MAX_DURATION, MAX, MAX + 1}

\* faulty variant: the bounds themselves are refused
valid_open(time) == MIN < time /\ time < MAX

\* Duration::valid: (MIN..=MAX).contains(&time)
valid(time) == MIN <= time /\ time <= MAX

\* faulty variant: any name passes for a keyboard
known_any(name) == TRUE

\* lines 244-247: the name is one of the compositor's keyboards
known(name) == name \in Keyboards

\* faulty variant: setting the duration also restarts the run
with_duration_reset(d, duration) ==
    [d EXCEPT !.max_duration = duration, !.counter = 0, !.sum_time = 0]

\* line 303: data.max_duration = Duration(duration)
with_duration(d, duration) == [d EXCEPT !.max_duration = duration]

\* lines 266-272: the first entry equal to the name is removed
without_first(devices, name) ==
    IF \E i \in 1..Len(devices) : devices[i] = name
    THEN LET i == CHOOSE i \in 1..Len(devices) :
                    /\ devices[i] = name
                    /\ \A j \in 1..(i - 1) : devices[j] # name
         IN  SubSeq(devices, 1, i - 1) \o SubSeq(devices, i + 1, Len(devices))
    ELSE devices

\* what a command that only writes the file leaves beside it
Quiet ==
    /\ target' = NoTarget
    /\ applied' = <<>>
    /\ base' = NoBase /\ run' = 0 /\ seen' = {} /\ ended' = NoBurst
    /\ NoOverlap

\* data::load on a missing file prints a hint and exits with 1 (data.rs:42-47)
missing(cmd, a) ==
    /\ data = NoData
    /\ op' = cmd /\ arg' = a
    /\ outcome' = "exit1"
    /\ UNCHANGED <<data, mem>>
    /\ Quiet

\* device add <name>
add_device(device_name, devOk) ==
    /\ data # NoData
    /\ op' = "device_add" /\ arg' = <<device_name>>
    /\ Quiet
    /\ IF ~devOk
       THEN outcome' = "ext_error" /\ UNCHANGED <<data, mem>>
       ELSE IF ~known(device_name)
       THEN outcome' = "exit1" /\ UNCHANGED <<data, mem>>
       ELSE /\ outcome' = "ok"
            /\ data' = dump_after(devOk, data,
                          [data EXCEPT !.devices = Append(@, device_name)])
            /\ mem' = data'

\* device remove <name>
remove_device(device_name) ==
    /\ data # NoData
    /\ op' = "device_remove" /\ arg' = <<device_name>>
    /\ Quiet
    /\ outcome' = "ok"
    /\ data' = [data EXCEPT !.devices = without_first(@, device_name)]
    /\ mem' = data'

\* device list, and keypress-duration without a value: the file is only read
read_only(cmd) ==
    /\ data # NoData
    /\ op' = cmd /\ arg' = <<>>
    /\ Quiet
    /\ outcome' = "ok"
    /\ UNCHANGED <<data, mem>>

\* keypress-duration <seconds>: the value is checked before the file is loaded
set_keypress_duration(duration) ==
    /\ op' = "keypress_duration" /\ arg' = <<duration>>
    /\ Quiet
    /\ IF ~valid(duration)
       THEN outcome' = "exit1" /\ UNCHANGED <<data, mem>>
       ELSE IF data = NoData
       THEN outcome' = "exit1" /\ UNCHANGED <<data, mem>>
       ELSE /\ outcome' = "ok"
            /\ data' = with_duration(data, duration)
            /\ mem' = data'

InitCmds ==
    /\ data = NoData
    /\ mem = NoData
    /\ op = "none"
    /\ outcome = "ok"
    /\ target = NoTarget
    /\ base = NoBase /\ run = 0 /\ seen = {} /\ ended = NoBurst
    /\ arg = <<>> /\ applied = <<>>
    /\ procs = <<>> /\ start = NoData

\* the clock readings of these two specifications: no gap, or a long one
CmdTimes == {0, MaxTick * Tick}

(* The configuration commands and switch, the compositor answering. *)

CmdInit ==
    \E devices \in DeviceArgs, n \in LayoutCounts :
        init(devices, n, 0, TRUE)

CmdUpdateLayouts ==
    \/ missing("update_layouts", <<>>)
    \/ /\ data # NoData
       /\ \E n \in LayoutCounts : update_layouts(n, TRUE)

CmdSwitch ==
    \/ missing("switch", <<>>)
    \/ /\ data # NoData
       /\ data.counter < MaxRunLen
       /\ \E press_time \in CmdTimes : switch(press_time, "wrap", TRUE, 0)

CmdDeviceAdd ==
    \E name \in DeviceNames :
        \/ missing("device_add", <<name>>)
        \/ /\ data # NoData
           /\ Len(data.devices) < MaxDevices
           /\ add_device(name, TRUE)

CmdDeviceRemove ==
    \E name \in DeviceNames :
        \/ missing("device_remove", <<name>>)
        \/ remove_device(name)

CmdRead ==
    \E cmd \in {"device_list", "keypress_duration_print"} :
        \/ missing(cmd, <<>>)
        \/ read_only(cmd)

CmdKeypressDuration ==
    \E duration \in DurationArgs : set_keypress_duration(duration)

NextCmds ==
    \/ CmdInit
    \/ CmdUpdateLayouts
    \/ CmdSwitch
    \/ CmdDeviceAdd
    \/ CmdDeviceRemove
    \/ CmdRead
    \/ CmdKeypressDuration

SpecCmds == InitCmds /\ [][NextCmds]_vars

(* The commands that call the compositor, which may fail to answer or    *)
(* fail to apply a layout.                                               *)

FaultInit ==
    \E devices \in DeviceArgs :
        \/ \E n \in LayoutCounts, time \in CmdTimes : init(devices, n, time, TRUE)
        \/ init(devices, MaxN, 0, FALSE)

FaultUpdateLayouts ==
    /\ data # NoData
    /\ \/ \E n \in LayoutCounts : update_layouts(n, TRUE)
       \/ update_layouts(MaxN, FALSE)

FaultSwitch ==
    /\ data # NoData
    /\ data.counter < MaxRunLen
    /\ \E press_time \in CmdTimes :
          \/ \E failAt \in 0..Len(KeyboardOrder) : switch(press_time, "wrap", TRUE, failAt)
          \/ switch(press_time, "wrap", FALSE, 0)

FaultDeviceAdd ==
    /\ data # NoData
    /\ Len(data.devices) < MaxDevices
    /\ \E name \in DeviceNames, devOk \in BOOLEAN : add_device(name, devOk)

NextFaults == FaultInit \/ FaultUpdateLayouts \/ FaultSwitch \/ FaultDeviceAdd

SpecFaults == InitCmds /\ [][NextFaults]_vars

----------------------------------------------------------------------------
(* Properties of the commands *)

\* C12: when the apply of the target layout to one registered device fails
\* during switch, the apply has still been attempted for every other
\* registered device, and the updated state is persisted.
C12_Orig ==
    (op = "switch" /\ outcome = "apply_error") =>
        /\ applied = matched(data.devices)
        /\ data = mem

\* the command of this step was given a device name the compositor lacks
UnknownName(cmd) ==
    /\ op' = cmd
    /\ \E i \in 1..Len(arg') : arg'[i] \notin Keyboards

\* the command of this step was given a duration outside [MIN, MAX]
OutOfRange ==
    /\ op' = "keypress_duration"
    /\ (arg'[1] < MIN \/ arg'[1] > MAX)

Rejected == outcome' = "exit1" /\ data' = data

\* C13 as stated: an unknown device name given to init or to device add, or
\* a duration outside [0.2, 1.0], ends the command with a non-zero exit code
\* and leaves the persisted state as it was.
C13_Orig ==
    [][(UnknownName("init") \/ UnknownName("device_add") \/ OutOfRange)
          => Rejected]_vars

\* C13 as amended: an unknown device name given to device add, or a duration
\* outside [0.2, 1.0], ends the command with a non-zero exit code and leaves
\* the persisted state as it was; init skips the unknown names, ends
\* normally and writes a new record holding the known names it was given.
C13_ConfigErrorRejected ==
    [][/\ (UnknownName("device_add") \/ OutOfRange) => Rejected
       /\ UnknownName("init") =>
            /\ outcome' = "ok"
            /\ data' # NoData
            /\ \A name \in DeviceNames :
                  (\E i \in 1..Len(data'.devices) : data'.devices[i] = name)
                    <=> (name \in Keyboards /\ \E i \in 1..Len(arg') : arg'[i] = name)
            /\ data'.counter = 0]_vars

\* device add has refused an unknown name, a record being stored
C13_Witness ==
    /\ op = "device_add" /\ outcome = "exit1"
    /\ arg[1] \notin Keyboards
    /\ data # NoData
    /\ data.counter >= 1

\* C14: the persisted max_duration always lies in [0.2, 1.0]: keypress-duration
\* with value v stores v iff 0.2 <= v <= 1.0, both bounds included, and writes
\* nothing otherwise; init stores the default 0.4.
C14_DurationInRange ==
    [][/\ data' # NoData =>
            (data'.max_duration >= MIN /\ data'.max_duration <= MAX)
       /\ (op' = "keypress_duration" /\ data # NoData) =>
            IF arg'[1] >= MIN /\ arg'[1] <= MAX
            THEN data'.max_duration = arg'[1]
            ELSE data' = data
       /\ op' = "init" => data'.max_duration = DEFAULT_MAX_DURATION]_vars

\* the upper bound itself has been stored
C14_Witness ==
    /\ op = "keypress_duration" /\ outcome = "ok"
    /\ arg[1] = MAX
    /\ data.max_duration = MAX

OtherThanDuration ==
    {"devices", "last_time", "layouts", "cur_freq", "cur_all", "sum_time", "counter"}

\* C15: a successful keypress-duration changes no field but max_duration,
\* and given the stored value it leaves the whole record as it was.
C15_SetterFrame ==
    [][(op' = "keypress_duration" /\ outcome' = "ok") =>
          /\ \A field \in OtherThanDuration : data'[field] = data[field]
          /\ (arg'[1] = data.max_duration => data' = data)]_vars

\* the duration has been set in the middle of a run of rapid presses
C15_Witness ==
    /\ op = "keypress_duration" /\ outcome = "ok"
    /\ data.max_duration # DEFAULT_MAX_DURATION
    /\ data.counter >= 2
    /\ data.cur_freq = 1

\* C16: the persisted devices list never holds a device name twice.
C16_Orig ==
    data # NoData =>
        \A i, j \in 1..Len(data.devices) :
            data.devices[i] = data.devices[j] => i = j

\* C17: when the compositor fails to answer during init, switch,
\* update-layouts or device add, the command ends with an error, the
\* persisted record keeps its previous content or stays absent, and no
\* layout is applied.
C17_NoWriteOnExternalFailure ==
    [][outcome' = "ext_error" =>
          /\ op' \in {"init", "switch", "update_layouts", "device_add"}
          /\ data' = data
          /\ applied' = <<>>]_vars

\* a switch that had computed the next state failed before writing it
C17_Witness ==
    /\ op = "switch" /\ outcome = "ext_error"
    /\ data # NoData
    /\ mem # data
    /\ mem.counter >= 2

OtherThanLayouts ==
    {"devices", "last_time", "cur_freq", "cur_all", "sum_time", "counter",
     "max_duration"}

\* C18: update-layouts replaces layouts by 0..M-1, M the number of layouts
\* now configured, changes no other field and applies no layout to any
\* device.
C18_UpdateLayoutsFrame ==
    [][(op' = "update_layouts" /\ outcome' = "ok") =>
          /\ Len(data'.layouts) \in LayoutCounts
          /\ \A i \in 1..Len(data'.layouts) : data'.layouts[i] = i - 1
          /\ \A field \in OtherThanLayouts : data'[field] = data[field]
          /\ applied' = <<>>
          /\ target' = NoTarget]_vars

\* the layouts were refreshed in the middle of a run, to fewer than before
C18_Witness ==
    /\ op = "update_layouts" /\ outcome = "ok"
    /\ data.counter >= 2
    /\ data.cur_freq = 1
    /\ data.cur_all >= Len(data.layouts)

\* C19: cur_freq is always 0 or 1; so with three or more layouts no switch
\* indexes layouts out of range, and the cursor a burst press leaves, bumped
\* past cur_freq or not, is below layouts.len().
C19_FreqBinary ==
    /\ data.cur_freq \in {0, 1}
    /\ mem.cur_freq \in {0, 1}
    /\ (op = "switch" /\ N >= 3) =>
          /\ outcome # "index_panic"
          /\ (Stepped /\ mem.counter >= 2) => mem.cur_all < N

\* a burst press with three layouts has left the cursor on the last slot,
\* one past cur_freq
C19_Witness ==
    /\ op = "switch" /\ outcome = "ok"
    /\ N = 3
    /\ data.counter >= 4
    /\ data.cur_freq = 1 /\ data.cur_all = 2

\* C20: with three or more layouts every switch changes the active layout.
C20_Orig ==
    [][(op' = "switch" /\ Len(data.layouts) >= 3) =>
          /\ target' # NoTarget
          /\ target' # Active(data)]_vars

====
